---- MODULE Spec2Model ----
(***************************************************************************)
(* State-machine model of the provisioning / deployment tools of           *)
(* go-lambda-template:                                                     *)
(*   cmd/setup   (Provision)  - role, ECR repository, image, function      *)
(*   cmd/deploy  (Deploy)     - build, login, tag, push, update function   *)
(*   deploy with built-in constants (the older tool, same control flow)    *)
(*   teardown tool            - confirmation, delete function + repository *)
(* One action per external command a tool issues together with the error   *)
(* handling main() applies to its result.  Remote (AWS) state persists     *)
(* across runs; run-local state is reset when a tool is started.           *)
(***************************************************************************)
EXTENDS Integers, Sequences, FiniteSets, TLC

(* ------------------------------------------------------------------ *)
(* Bounds                                                              *)
(* ------------------------------------------------------------------ *)

\* number of distinct image contents (digests) a docker build can produce
MaxDigest == 2

Digests == 1..MaxDigest

(* ------------------------------------------------------------------ *)
(* Configuration                                                       *)
(* ------------------------------------------------------------------ *)

\* the built-in constants of the older deploy tool; the role name is read only
\* by cmd/setup from config.yaml and stands for any non-empty name
DefaultConfig ==
    [region |-> "us-west-2", profile |-> "personal",
     functionName |-> "hello-world-lambda",
     repositoryName |-> "hello-world-repo",
     roleName |-> "lambda-execution-role"]

\* the zero value of the Config struct, before config.yaml is loaded
EmptyConfig ==
    [region |-> "", profile |-> "", functionName |-> "",
     repositoryName |-> "", roleName |-> ""]

\* contents config.yaml can parse to: yaml.Unmarshal leaves absent keys empty
ConfigFiles ==
    { DefaultConfig, [DefaultConfig EXCEPT !.roleName = ""] }

\* values of the environment variable LAMBDA_EXECUTION_ROLE_ARN at process start
EnvRoleArns == { "", "arn:aws:iam::123456789012:role/preset-role" }

\* the account the profile's credentials belong to
AccountID == "123456789012"

RoleArnOf(name) == "arn:aws:iam::" \o AccountID \o ":role/" \o name

\* the reference built with the account and the region swapped
ImageUriSwapped(account, region, repo) ==
    region \o ".dkr.ecr." \o account \o ".amazonaws.com/" \o repo \o ":latest"

\* fmt.Sprintf("%s.dkr.ecr.%s.amazonaws.com/%s:latest", account, region, repo)
ImageUri(account, region, repo) ==
    account \o ".dkr.ecr." \o region \o ".amazonaws.com/" \o repo \o ":latest"

(* ------------------------------------------------------------------ *)
(* Command output and its classification                               *)
(* ------------------------------------------------------------------ *)

\* combined output of a failed aws CLI call, as the words it is made of
ErrorOutput(code) == << "An error occurred (", code, ") when calling the operation" >>

\* strings.Contains(string(output), marker)
Contains(output, marker) == \E i \in DOMAIN output : output[i] = marker

(* ------------------------------------------------------------------ *)
(* State                                                               *)
(* ------------------------------------------------------------------ *)

VARIABLES
    role,           \* remote IAM role: [exists, attached]
    repo,           \* remote ECR repository: [exists, image] (image: digest under :latest, 0 none)
    fn,             \* remote Lambda function: [state, digest, uri, role]
    mode,           \* the tool that is running: "none", "setup", "deploy", "teardown"
    pc,             \* position of the running tool in its main()
    outcome,        \* "running", "exit0", "exit1" (log.Fatal*)
    config,         \* the package-level config variable
    env,            \* LAMBDA_EXECUTION_ROLE_ARN in the process environment
    roleARN,        \* main's roleARN (setup)
    awsAccountID,   \* main's awsAccountID
    image,          \* digest of the local image built in this run (0 none)
    confirmation,   \* teardown: the line read from the terminal
    calls,          \* external commands issued in this run, in order, with their results
    msgs,           \* lines printed / logged in this run
    fnAtStart,      \* history: fn when the running tool was started
    lastRoleArn,    \* history: ARN returned by the latest successful getOrCreateLambdaExecutionRole ("none": no call yet)
    prevRoleArn,    \* history: lastRoleArn when the running tool was started
    roleAtStart,    \* history: role when the running tool was started
    repoAtStart,    \* history: repo when the running tool was started
    envAtStart,     \* history: LAMBDA_EXECUTION_ROLE_ARN when the running tool was started
    prev,           \* history: the run before this one, if a Provision run that exited 0: [provisioned, config, env]
    uris,           \* image references this run passed to a command: [cmd, uri]
    event,          \* the latest event delivered to the function's handler since the last tool run
    reply,          \* what the handler returned for it: [text, err]
    functionRole,   \* the role ARN this run passed to create-function ("none": not called)
    lastCreate      \* history: arguments and effect of the latest successful createLambdaFunction

vars == << role, repo, fn, mode, pc, outcome, config, env, roleARN, awsAccountID,
           image, confirmation, calls, msgs, fnAtStart, lastRoleArn, prevRoleArn,
           lastCreate, roleAtStart, repoAtStart, envAtStart, prev, uris, event, reply, functionRole >>

remote == << role, repo, fn >>
history == << lastRoleArn, lastCreate >>
atStart == << fnAtStart, prevRoleArn, roleAtStart, repoAtStart, envAtStart, prev >>
handler == << event, reply >>

NoRun == [provisioned |-> FALSE, config |-> EmptyConfig, env |-> ""]
NoReply == [text |-> "", err |-> "none"]

NoFunction(state) == [state |-> state, digest |-> 0, uri |-> "", role |-> ""]
NoCreate == [valid |-> FALSE, name |-> "", uri |-> "", role |-> "", fn |-> NoFunction("Absent")]

FnExists(f) == f.state \in {"Created", "Updated"}

Init ==
    /\ role = [exists |-> FALSE, attached |-> FALSE]
    /\ repo = [exists |-> FALSE, image |-> 0]
    /\ fn = NoFunction("Absent")
    /\ mode = "none"
    /\ pc = "idle"
    /\ outcome = "exit0"
    /\ config = EmptyConfig
    /\ env = ""
    /\ roleARN = ""
    /\ awsAccountID = ""
    /\ image = 0
    /\ confirmation = ""
    /\ calls = << >>
    /\ msgs = {}
    /\ fnAtStart = NoFunction("Absent")
    /\ lastRoleArn = "none"
    /\ prevRoleArn = "none"
    /\ lastCreate = NoCreate
    /\ roleAtStart = role
    /\ repoAtStart = repo
    /\ envAtStart = ""
    /\ prev = NoRun
    /\ uris = {}
    /\ event = ""
    /\ reply = NoReply
    /\ functionRole = "none"

(* ------------------------------------------------------------------ *)
(* The call log                                                        *)
(* ------------------------------------------------------------------ *)

Call(cmd, res) == [cmd |-> cmd, res |-> res]

Issued(cmd) == \E i \in DOMAIN calls : calls[i].cmd = cmd
Succeeded(cmd) == \E i \in DOMAIN calls : calls[i].cmd = cmd /\ calls[i].res = "ok"

(* ------------------------------------------------------------------ *)
(* Remote services: the results a command can have in the current      *)
(* remote state.  "ok" is exit status 0; anything else is a failure    *)
(* whose output carries that error code.                               *)
(* ------------------------------------------------------------------ *)

\* aws iam get-role --role-name name
GetRoleResponses(name) ==
    IF name = "" THEN {"ValidationError"}
    ELSE IF role.exists THEN {"ok", "AccessDenied"}
    ELSE {"NoSuchEntity", "AccessDenied"}

\* aws iam create-role --role-name name
CreateRoleResponses(name) ==
    IF name = "" THEN {"ValidationError"}
    ELSE IF role.exists THEN {"EntityAlreadyExists", "AccessDenied"}
    ELSE {"ok", "AccessDenied"}

\* aws iam attach-role-policy --role-name name
AttachPolicyResponses(name) ==
    IF name # "" /\ role.exists THEN {"ok", "AccessDenied"} ELSE {"NoSuchEntity"}

\* aws ecr create-repository
CreateRepositoryResponses ==
    IF repo.exists THEN {"RepositoryAlreadyExistsException", "ServiceError"}
    ELSE {"ok", "ServiceError"}

\* docker push: the registry accepts the image only into an existing repository
PushResponses == IF repo.exists THEN {"ok", "Error"} ELSE {"Error"}

\* a command that depends on no state modelled here
PlainResponses == {"ok", "Error"}

\* aws lambda create-function / update-function-code / delete-function
LambdaResponses(cmd) ==
    CASE cmd = "lambda create-function" ->
            IF FnExists(fn) THEN {"ResourceConflictException", "ServiceError"}
            ELSE IF repo.image = 0 THEN {"InvalidParameterValueException"}
            ELSE {"ok", "ServiceError"}
      [] cmd = "lambda update-function-code" ->
            IF ~FnExists(fn) THEN {"ResourceNotFoundException", "ServiceError"}
            ELSE IF repo.image = 0 THEN {"InvalidParameterValueException"}
            ELSE {"ok", "ServiceError"}
      [] OTHER ->
            IF FnExists(fn) THEN {"ok", "ServiceError"}
            ELSE {"ResourceNotFoundException"}

\* the function after cmd answered res; a failed command changes nothing
LambdaEffect(cmd, res, uri, arn) ==
    IF res # "ok" THEN fn
    ELSE CASE cmd = "lambda create-function" ->
                [state |-> "Created", digest |-> repo.image, uri |-> uri, role |-> arn]
           [] cmd = "lambda update-function-code" ->
                [fn EXCEPT !.state = "Updated", !.digest = repo.image, !.uri = uri]
           [] OTHER -> NoFunction("Deleted")

\* the JSON document get-role / create-role print on success
RoleDocument(name) == [Role |-> [Arn |-> RoleArnOf(name)]]

(* ------------------------------------------------------------------ *)
(* Starting a tool                                                     *)
(* ------------------------------------------------------------------ *)

\* what the next run remembers of the run that just ended
RunSummary ==
    IF mode = "setup" /\ outcome = "exit0"
    THEN [provisioned |-> TRUE, config |-> config, env |-> envAtStart]
    ELSE NoRun

\* a tool is started from the shell when no tool is running
StartRun(tool, environment) ==
    /\ pc \in {"idle", "done"}
    /\ mode' = tool
    /\ pc' = "loadConfig"
    /\ outcome' = "running"
    /\ config' = EmptyConfig
    /\ env' = environment
    /\ roleARN' = ""
    /\ awsAccountID' = ""
    /\ image' = 0
    /\ confirmation' = ""
    /\ calls' = << >>
    /\ msgs' = {}
    /\ fnAtStart' = fn
    /\ prevRoleArn' = lastRoleArn
    /\ roleAtStart' = role
    /\ repoAtStart' = repo
    /\ envAtStart' = environment
    /\ prev' = RunSummary
    /\ uris' = {}
    /\ event' = ""
    /\ reply' = NoReply
    /\ functionRole' = "none"
    /\ UNCHANGED << remote, history >>

\* log.Fatalf: the process exits with status 1
Fatal == pc' = "done" /\ outcome' = "exit1"

\* main returns: the process exits with status 0
Exit0 == pc' = "done" /\ outcome' = "exit0"

\* move to the next position of main, or leave the process
Goto(target) ==
    CASE target = "fatal" -> Fatal
      [] target = "exit0" -> Exit0
      [] OTHER -> pc' = target /\ UNCHANGED outcome

Log(cmd, res) == calls' = Append(calls, Call(cmd, res))
Uses(cmd, uri) == uris' = uris \cup {[cmd |-> cmd, uri |-> uri]}
Say(lines) == msgs' = msgs \cup lines

(* ------------------------------------------------------------------ *)
(* cmd/setup: Provision                                                *)
(* ------------------------------------------------------------------ *)

\* main of cmd/setup only logging a failed image pipeline, as it does a failed repository
SetupFlowPipelineLogged(step, err) ==
    CASE step = "loadConfig" -> IF err THEN "fatal" ELSE "getRole"
      [] step = "identity"   -> IF err THEN "fatal" ELSE "createRepo"
      [] step = "createRepo" -> "account"
      [] step = "account"    -> IF err THEN "fatal" ELSE "login"
      [] step = "pipeline"   -> "createFn"
      [] OTHER               -> "exit0"

\* main of cmd/setup: where it goes after a step returned (err: the step failed)
SetupFlow(step, err) ==
    CASE step = "loadConfig" -> IF err THEN "fatal" ELSE "getRole"
      [] step = "identity"   -> IF err THEN "fatal" ELSE "createRepo"
      [] step = "createRepo" -> "account"
      [] step = "account"    -> IF err THEN "fatal" ELSE "login"
      [] step = "pipeline"   -> IF err THEN "fatal" ELSE "createFn"
      [] OTHER               -> "exit0"

\* getOrCreateLambdaExecutionRole: what follows a command that answered res
RoleFlow(step, res) ==
    CASE step = "getRole"    -> IF res = "ok" THEN "return" ELSE "createRole"
      [] step = "createRole" -> IF res = "ok" THEN "attachPolicy" ELSE "returnErr"
      [] OTHER               -> IF res = "ok" THEN "return" ELSE "returnErr"

\* buildAndPushDockerImage with the return after a failed docker tag left out
PipelineFlowTagFallsThrough(step, res) ==
    CASE step = "login" -> IF res = "ok" THEN "build" ELSE "returnErr"
      [] step = "build" -> IF res = "ok" THEN "tag" ELSE "returnErr"
      [] step = "tag"   -> "push"
      [] OTHER          -> IF res = "ok" THEN "return" ELSE "returnErr"

\* buildAndPushDockerImage: what follows a sub-step that answered res
PipelineFlow(step, res) ==
    CASE step = "login" -> IF res = "ok" THEN "build" ELSE "returnErr"
      [] step = "build" -> IF res = "ok" THEN "tag" ELSE "returnErr"
      [] step = "tag"   -> IF res = "ok" THEN "push" ELSE "returnErr"
      [] OTHER          -> IF res = "ok" THEN "return" ELSE "returnErr"

\* the found branch reading a field the document does not carry
ParseGetRoleArnWrongField(doc) == ""

\* found branch: json.Unmarshal(output, &roleResponse); roleResponse.Role.Arn
ParseGetRoleArn(doc) == doc.Role.Arn

\* create branch: json.Unmarshal(output, &roleResponse); roleResponse.Role.Arn
ParseCreateRoleArn(doc) == doc.Role.Arn

\* createECRRepository looking for the marker of another service
RepositoryErrorWrongMarker(output) ==
    IF Contains(output, "ResourceConflictException") THEN "nil" ELSE "error"

\* createECRRepository: the error it returns for a failed create-repository
RepositoryError(output) ==
    IF Contains(output, "RepositoryAlreadyExistsException") THEN "nil" ELSE "error"

\* createLambdaFunction looking for the marker of another service
FunctionErrorWrongMarker(output) ==
    IF Contains(output, "RepositoryAlreadyExistsException") THEN "nil" ELSE "error"

\* createLambdaFunction: the error it returns for a failed create-function
FunctionError(output) ==
    IF Contains(output, "ResourceConflictException") THEN "nil" ELSE "error"

\* main taking the identity step whatever the environment holds
NeedsIdentityAlways(arn) == TRUE

\* if roleARN == "": the identity step runs only when the environment gave no ARN
NeedsIdentity(arn) == arn = ""

StartSetup == \E e \in EnvRoleArns : StartRun("setup", e)

\* loadConfig("config.yaml"), then roleARN := os.Getenv("LAMBDA_EXECUTION_ROLE_ARN")
SetupLoadConfig ==
    /\ mode = "setup" /\ pc = "loadConfig"
    /\ \/ /\ Goto(SetupFlow("loadConfig", TRUE))
          /\ Say({"Failed to load configuration"})
          /\ UNCHANGED << config, roleARN >>
       \/ \E f \in ConfigFiles :
          /\ config' = f
          /\ roleARN' = env
          /\ UNCHANGED msgs
          /\ IF NeedsIdentity(env) THEN Goto(SetupFlow("loadConfig", FALSE))
                                   ELSE Goto(SetupFlow("identity", FALSE))
    /\ UNCHANGED << remote, history, mode, env, awsAccountID, image, confirmation,
                    calls, atStart, handler, uris, functionRole >>

\* getOrCreateLambdaExecutionRole returned (arn, nil): main stores it in the environment
IdentityReturns(arn, line) ==
    /\ roleARN' = arn
    /\ env' = arn
    /\ lastRoleArn' = arn
    /\ Say({line})
    /\ Goto(SetupFlow("identity", FALSE))

\* getOrCreateLambdaExecutionRole returned ("", err)
IdentityFails(line) ==
    /\ Say({line, "Failed to get or create Lambda execution role"})
    /\ Goto(SetupFlow("identity", TRUE))
    /\ roleARN' = ""
    /\ UNCHANGED << env, lastRoleArn >>

\* aws iam get-role
SetupGetRole ==
    /\ mode = "setup" /\ pc = "getRole"
    /\ \E res \in GetRoleResponses(config.roleName) :
          /\ Log("iam get-role", res)
          /\ IF RoleFlow("getRole", res) = "return"
             THEN IdentityReturns(ParseGetRoleArn(RoleDocument(config.roleName)),
                                  "Lambda execution role already exists")
             ELSE /\ pc' = RoleFlow("getRole", res)
                  /\ UNCHANGED << outcome, roleARN, env, lastRoleArn, msgs >>
    /\ UNCHANGED << remote, lastCreate, mode, config, awsAccountID, image,
                    confirmation, atStart, handler, uris, functionRole >>

\* aws iam create-role
SetupCreateRole ==
    /\ mode = "setup" /\ pc = "createRole"
    /\ \E res \in CreateRoleResponses(config.roleName) :
          /\ Log("iam create-role", res)
          /\ role' = IF res = "ok" THEN [exists |-> TRUE, attached |-> FALSE] ELSE role
          /\ IF RoleFlow("createRole", res) = "returnErr"
             THEN IdentityFails("error creating IAM role")
             ELSE /\ pc' = RoleFlow("createRole", res)
                  /\ roleARN' = ParseCreateRoleArn(RoleDocument(config.roleName))
                  /\ UNCHANGED << outcome, env, lastRoleArn, msgs >>
    /\ UNCHANGED << repo, fn, lastCreate, mode, config, awsAccountID, image,
                    confirmation, atStart, handler, uris, functionRole >>

\* aws iam attach-role-policy
SetupAttachPolicy ==
    /\ mode = "setup" /\ pc = "attachPolicy"
    /\ \E res \in AttachPolicyResponses(config.roleName) :
          /\ Log("iam attach-role-policy", res)
          /\ role' = IF res = "ok" THEN [role EXCEPT !.attached = TRUE] ELSE role
          /\ IF RoleFlow("attachPolicy", res) = "return"
             THEN IdentityReturns(roleARN, "Lambda execution role created successfully")
             ELSE /\ IdentityFails("error attaching policy to role")
    /\ UNCHANGED << repo, fn, lastCreate, mode, config, awsAccountID, image,
                    confirmation, atStart, handler, uris, functionRole >>

\* createECRRepository and main's handling of its result
SetupCreateRepository ==
    /\ mode = "setup" /\ pc = "createRepo"
    /\ \E res \in CreateRepositoryResponses :
          LET err == IF res = "ok" THEN "nil" ELSE RepositoryError(ErrorOutput(res))
          IN  /\ Log("ecr create-repository", res)
              /\ repo' = IF res = "ok" THEN [exists |-> TRUE, image |-> 0] ELSE repo
              /\ Say((IF res # "ok" /\ err = "nil"
                         THEN {"ECR repository already exists"} ELSE {})
                     \cup (IF err = "nil"
                              THEN {"ECR repository created successfully"}
                              ELSE {"Error creating ECR repository"}))
              /\ Goto(SetupFlow("createRepo", err # "nil"))
    /\ UNCHANGED << role, fn, history, mode, config, env, roleARN, awsAccountID,
                    image, confirmation, atStart, handler, uris, functionRole >>

\* getAWSAccountID: aws sts get-caller-identity
SetupGetAccountID ==
    /\ mode = "setup" /\ pc = "account"
    /\ \E res \in PlainResponses :
          /\ Log("sts get-caller-identity", res)
          /\ awsAccountID' = IF res = "ok" THEN AccountID ELSE ""
          /\ Say(IF res = "ok" THEN {} ELSE {"Error getting AWS Account ID"})
          /\ Goto(SetupFlow("account", res # "ok"))
    /\ UNCHANGED << remote, history, mode, config, env, roleARN, image,
                    confirmation, atStart, handler, uris, functionRole >>

\* buildAndPushDockerImage returned: main's handling of its result
PipelineReturns(step, res) ==
    IF PipelineFlow(step, res) = "return"
    THEN /\ Say({"Docker image built and pushed successfully"})
         /\ Goto(SetupFlow("pipeline", FALSE))
    ELSE IF PipelineFlow(step, res) = "returnErr"
    THEN /\ Say({"Error building and pushing Docker image"})
         /\ Goto(SetupFlow("pipeline", TRUE))
    ELSE /\ pc' = PipelineFlow(step, res)
         /\ UNCHANGED << outcome, msgs >>

\* buildAndPushDockerImage: aws ecr get-login-password (the password goes to stdout)
SetupLogin ==
    /\ mode = "setup" /\ pc = "login"
    /\ \E res \in PlainResponses :
          /\ Log("ecr get-login-password", res)
          /\ PipelineReturns("login", res)
    /\ UNCHANGED << remote, history, mode, config, env, roleARN, awsAccountID,
                    image, confirmation, atStart, handler, uris, functionRole >>

\* buildAndPushDockerImage: docker build -t <repository> .
SetupBuild ==
    /\ mode = "setup" /\ pc = "build"
    /\ \E res \in PlainResponses, d \in Digests :
          /\ Log("docker build", res)
          /\ image' = IF res = "ok" THEN d ELSE image
          /\ PipelineReturns("build", res)
    /\ UNCHANGED << remote, history, mode, config, env, roleARN, awsAccountID,
                    confirmation, atStart, handler, uris, functionRole >>

\* buildAndPushDockerImage: docker tag <repository> <imageUri>
SetupTag ==
    /\ mode = "setup" /\ pc = "tag"
    /\ \E res \in PlainResponses :
          /\ Log("docker tag", res)
          /\ Uses("docker tag",
                  ImageUri(awsAccountID, config.region, config.repositoryName))
          /\ PipelineReturns("tag", res)
    /\ UNCHANGED << remote, history, mode, config, env, roleARN, awsAccountID,
                    image, confirmation, atStart, handler, functionRole >>

\* buildAndPushDockerImage: docker push <imageUri>
SetupPush ==
    /\ mode = "setup" /\ pc = "push"
    /\ \E res \in PushResponses :
          /\ Log("docker push", res)
          /\ Uses("docker push",
                  ImageUri(awsAccountID, config.region, config.repositoryName))
          /\ repo' = IF res = "ok" THEN [repo EXCEPT !.image = image] ELSE repo
          /\ PipelineReturns("push", res)
    /\ UNCHANGED << role, fn, history, mode, config, env, roleARN, awsAccountID,
                    image, confirmation, atStart, handler, functionRole >>

\* createLambdaFunction and main's handling of its result
SetupCreateFunction ==
    /\ mode = "setup" /\ pc = "createFn"
    /\ \E res \in LambdaResponses("lambda create-function") :
          LET uri == ImageUri(awsAccountID, config.region, config.repositoryName)
              err == IF res = "ok" THEN "nil" ELSE FunctionError(ErrorOutput(res))
              after == LambdaEffect("lambda create-function", res, uri, roleARN)
          IN  /\ Log("lambda create-function", res)
              /\ Uses("lambda create-function", uri)
              /\ functionRole' = roleARN
              /\ fn' = after
              /\ lastCreate' = IF err = "nil"
                                  THEN [valid |-> TRUE, name |-> config.functionName,
                                        uri |-> uri, role |-> roleARN, fn |-> after]
                                  ELSE lastCreate
              /\ Say((IF res # "ok" /\ err = "nil"
                         THEN {"Lambda function already exists"} ELSE {})
                     \cup (IF err = "nil"
                              THEN {"Lambda function created successfully"}
                              ELSE {"Error creating Lambda function"}))
              /\ Goto(SetupFlow("createFn", err # "nil"))
    /\ UNCHANGED << role, repo, lastRoleArn, mode, config, env, roleARN, awsAccountID,
                    image, confirmation, atStart, handler >>

(* ------------------------------------------------------------------ *)
(* cmd/deploy: Deploy                                                  *)
(* ------------------------------------------------------------------ *)

\* main of cmd/deploy handling a failed update the way cmd/setup handles a failed create
DeployFlowUpdateLogged(step, err) ==
    IF err /\ step # "update" THEN "fatal"
    ELSE CASE step = "loadConfig" -> "checkIAM"
           [] step = "checkIAM"   -> "account"
           [] step = "account"    -> "build"
           [] step = "build"      -> "auth"
           [] step = "auth"       -> "tag"
           [] step = "tag"        -> "push"
           [] step = "push"       -> "update"
           [] OTHER               -> "exit0"

\* main of cmd/deploy only logging a failed pre-check
DeployFlowChecksLogged(step, err) ==
    IF err /\ step \notin {"checkIAM", "account"} THEN "fatal"
    ELSE CASE step = "loadConfig" -> "checkIAM"
           [] step = "checkIAM"   -> "account"
           [] step = "account"    -> "build"
           [] step = "build"      -> "auth"
           [] step = "auth"       -> "tag"
           [] step = "tag"        -> "push"
           [] step = "push"       -> "update"
           [] OTHER               -> "exit0"

\* main of cmd/deploy: where it goes after a step returned (err: the step failed)
DeployFlow(step, err) ==
    IF err THEN "fatal"
    ELSE CASE step = "loadConfig" -> "checkIAM"
           [] step = "checkIAM"   -> "account"
           [] step = "account"    -> "build"
           [] step = "build"      -> "auth"
           [] step = "auth"       -> "tag"
           [] step = "tag"        -> "push"
           [] step = "push"       -> "update"
           [] OTHER               -> "exit0"

\* updateLambdaFunction running the command of createLambdaFunction
DeployFunctionCommandCreate == "lambda create-function"

\* the command updateLambdaFunction runs
DeployFunctionCommand == "lambda update-function-code"

StartDeploy == StartRun("deploy", "")

\* the older deploy tool: no config file, the constants are compiled in
StartDeployBuiltin ==
    /\ pc \in {"idle", "done"}
    /\ mode' = "deploy"
    /\ pc' = "checkIAM"
    /\ outcome' = "running"
    /\ config' = [DefaultConfig EXCEPT !.roleName = ""]
    /\ env' = ""
    /\ roleARN' = ""
    /\ awsAccountID' = ""
    /\ image' = 0
    /\ confirmation' = ""
    /\ calls' = << >>
    /\ msgs' = {}
    /\ fnAtStart' = fn
    /\ prevRoleArn' = lastRoleArn
    /\ roleAtStart' = role
    /\ repoAtStart' = repo
    /\ envAtStart' = ""
    /\ prev' = RunSummary
    /\ uris' = {}
    /\ event' = ""
    /\ reply' = NoReply
    /\ functionRole' = "none"
    /\ UNCHANGED << remote, history >>

\* loadConfig("config.yaml"); the deploy Config has no role name
DeployLoadConfig ==
    /\ mode = "deploy" /\ pc = "loadConfig"
    /\ \/ /\ Goto(DeployFlow("loadConfig", TRUE))
          /\ Say({"Failed to load configuration"})
          /\ UNCHANGED config
       \/ \E f \in ConfigFiles :
          /\ config' = [f EXCEPT !.roleName = ""]
          /\ UNCHANGED msgs
          /\ Goto(DeployFlow("loadConfig", FALSE))
    /\ UNCHANGED << remote, history, mode, env, roleARN, awsAccountID, image,
                    confirmation, calls, atStart, handler, uris, functionRole >>

\* a deploy step that changes nothing but the run: issue cmd, then main's handling
DeployStep(step, cmd, res, okLine, errLine) ==
    /\ Log(cmd, res)
    /\ Say(IF res = "ok" THEN okLine ELSE {errLine})
    /\ Goto(DeployFlow(step, res # "ok"))

\* checkIAMPermissions: aws iam get-user
DeployCheckIAM ==
    /\ mode = "deploy" /\ pc = "checkIAM"
    /\ \E res \in PlainResponses :
          DeployStep("checkIAM", "iam get-user", res,
                     {"Successfully retrieved IAM user info"}, "IAM permission check failed")
    /\ UNCHANGED << remote, history, mode, config, env, roleARN, awsAccountID,
                    image, confirmation, atStart, handler, uris, functionRole >>

\* getAWSAccountID: aws sts get-caller-identity
DeployGetAccountID ==
    /\ mode = "deploy" /\ pc = "account"
    /\ \E res \in PlainResponses :
          /\ DeployStep("account", "sts get-caller-identity", res, {},
                        "Error getting AWS Account ID")
          /\ awsAccountID' = IF res = "ok" THEN AccountID ELSE ""
    /\ UNCHANGED << remote, history, mode, config, env, roleARN, image,
                    confirmation, atStart, handler, uris, functionRole >>

\* buildDockerImage: docker build -t <repository>/<function> .
DeployBuild ==
    /\ mode = "deploy" /\ pc = "build"
    /\ \E res \in PlainResponses, d \in Digests :
          /\ DeployStep("build", "docker build", res,
                        {"Docker image built successfully"}, "Error building Docker image")
          /\ image' = IF res = "ok" THEN d ELSE image
    /\ UNCHANGED << remote, history, mode, config, env, roleARN, awsAccountID,
                    confirmation, atStart, handler, uris, functionRole >>

\* authenticateDocker, first half: aws ecr get-login-password
DeployGetLoginPassword ==
    /\ mode = "deploy" /\ pc = "auth"
    /\ \E res \in PlainResponses :
          /\ Log("ecr get-login-password", res)
          /\ IF res = "ok"
             THEN pc' = "dockerLogin" /\ UNCHANGED << outcome, msgs >>
             ELSE /\ Say({"Error authenticating Docker"})
                  /\ Goto(DeployFlow("auth", TRUE))
    /\ UNCHANGED << remote, history, mode, config, env, roleARN, awsAccountID,
                    image, confirmation, atStart, handler, uris, functionRole >>

\* authenticateDocker, second half: docker login --password-stdin <registry>
DeployDockerLogin ==
    /\ mode = "deploy" /\ pc = "dockerLogin"
    /\ \E res \in PlainResponses :
          DeployStep("auth", "docker login", res,
                     {"Successfully authenticated Docker with ECR"},
                     "Error authenticating Docker")
    /\ UNCHANGED << remote, history, mode, config, env, roleARN, awsAccountID,
                    image, confirmation, atStart, handler, uris, functionRole >>

\* tagDockerImage: docker tag <repository>/<function>:latest <imageUri>
DeployTag ==
    /\ mode = "deploy" /\ pc = "tag"
    /\ \E res \in PlainResponses :
          /\ DeployStep("tag", "docker tag", res,
                        {"Docker image tagged successfully"}, "Error tagging Docker image")
          /\ Uses("docker tag",
                  ImageUri(awsAccountID, config.region, config.repositoryName))
    /\ UNCHANGED << remote, history, mode, config, env, roleARN, awsAccountID,
                    image, confirmation, atStart, handler, functionRole >>

\* pushDockerImage: docker push <imageUri>
DeployPush ==
    /\ mode = "deploy" /\ pc = "push"
    /\ \E res \in PushResponses :
          /\ DeployStep("push", "docker push", res,
                        {"Docker image pushed to ECR successfully"},
                        "Error pushing Docker image")
          /\ repo' = IF res = "ok" THEN [repo EXCEPT !.image = image] ELSE repo
          /\ Uses("docker push",
                  ImageUri(awsAccountID, config.region, config.repositoryName))
    /\ UNCHANGED << role, fn, history, mode, config, env, roleARN, awsAccountID,
                    image, confirmation, atStart, handler, functionRole >>

\* updateLambdaFunction and main's handling of its result
DeployUpdateFunction ==
    /\ mode = "deploy" /\ pc = "update"
    /\ \E res \in LambdaResponses(DeployFunctionCommand) :
          LET uri == ImageUri(awsAccountID, config.region, config.repositoryName)
          IN  /\ Log(DeployFunctionCommand, res)
              /\ Uses(DeployFunctionCommand, uri)
              /\ fn' = LambdaEffect(DeployFunctionCommand, res, uri, "")
              /\ lastCreate' = IF res = "ok" THEN NoCreate ELSE lastCreate
              /\ Say(IF res = "ok"
                        THEN {"Lambda function code updated successfully"}
                             \cup (IF DeployFlow("update", FALSE) = "exit0"
                                      THEN {"Deployment completed successfully"} ELSE {})
                        ELSE {"Error updating Lambda function"}
                             \cup (IF DeployFlow("update", TRUE) = "exit0"
                                      THEN {"Deployment completed successfully"} ELSE {}))
              /\ Goto(DeployFlow("update", res # "ok"))
    /\ UNCHANGED << role, repo, lastRoleArn, mode, config, env, roleARN, awsAccountID,
                    image, confirmation, atStart, handler, functionRole >>

(* ------------------------------------------------------------------ *)
(* teardown tool                                                       *)
(* ------------------------------------------------------------------ *)

\* lines the user can type at the prompt
Confirmations == {"y", "Y", "n", "yes"}

\* the prompt cancelling only on "n"
ConfirmedUnlessNo(c) == c # "n"

\* confirmation != "y" && confirmation != "Y" cancels
Confirmed(c) == c = "y" \/ c = "Y"

\* main of the teardown tool going on to the deletions after the prompt whatever was typed
TeardownFlowIgnoresAnswer(step, err) ==
    CASE step = "loadConfig" -> IF err THEN "fatal" ELSE "confirm"
      [] step = "confirm"    -> "session"
      [] step = "session"    -> IF err THEN "fatal" ELSE "deleteFn"
      [] step = "deleteFn"   -> "deleteRepo"
      [] OTHER               -> "exit0"

\* main of the teardown tool treating a failed function deletion as fatal
TeardownFlowStopsAtFunction(step, err) ==
    CASE step = "loadConfig" -> IF err THEN "fatal" ELSE "confirm"
      [] step = "confirm"    -> IF err THEN "exit0" ELSE "session"
      [] step = "session"    -> IF err THEN "fatal" ELSE "deleteFn"
      [] step = "deleteFn"   -> IF err THEN "fatal" ELSE "deleteRepo"
      [] OTHER               -> "exit0"

\* main of the teardown tool only logging a config file it cannot read
TeardownFlowConfigLogged(step, err) ==
    CASE step = "loadConfig" -> "confirm"
      [] step = "confirm"    -> IF err THEN "exit0" ELSE "session"
      [] step = "session"    -> IF err THEN "fatal" ELSE "deleteFn"
      [] step = "deleteFn"   -> "deleteRepo"
      [] OTHER               -> "exit0"

\* main of the teardown tool: where it goes after a step (err: the step failed)
TeardownFlow(step, err) ==
    CASE step = "loadConfig" -> IF err THEN "fatal" ELSE "confirm"
      [] step = "confirm"    -> IF err THEN "exit0" ELSE "session"
      [] step = "session"    -> IF err THEN "fatal" ELSE "deleteFn"
      [] step = "deleteFn"   -> "deleteRepo"
      [] OTHER               -> "exit0"

StartTeardown == StartRun("teardown", "")

\* os.ReadFile + yaml.Unmarshal; the teardown Config has no role name
TeardownLoadConfig ==
    /\ mode = "teardown" /\ pc = "loadConfig"
    /\ \/ /\ Goto(TeardownFlow("loadConfig", TRUE))
          /\ Say({"Error reading config file"})
          /\ UNCHANGED config
       \/ \E f \in ConfigFiles :
          /\ config' = [f EXCEPT !.roleName = ""]
          /\ UNCHANGED msgs
          /\ Goto(TeardownFlow("loadConfig", FALSE))
    /\ UNCHANGED << remote, history, mode, env, roleARN, awsAccountID, image,
                    confirmation, calls, atStart, handler, uris, functionRole >>

\* the prompt and fmt.Scanln(&confirmation)
TeardownConfirm ==
    /\ mode = "teardown" /\ pc = "confirm"
    /\ \E c \in Confirmations :
          /\ confirmation' = c
          /\ Say({"Are you sure you want to delete the Lambda function and ECR repository? (y/n): "}
                 \cup (IF TeardownFlow("confirm", ~Confirmed(c)) = "exit0"
                          THEN {"Deletion cancelled."} ELSE {}))
          /\ Goto(TeardownFlow("confirm", ~Confirmed(c)))
    /\ UNCHANGED << remote, history, mode, config, env, roleARN, awsAccountID,
                    image, calls, atStart, handler, uris, functionRole >>

\* session.NewSessionWithOptions
TeardownNewSession ==
    /\ mode = "teardown" /\ pc = "session"
    /\ \E err \in BOOLEAN :
          /\ Say(IF err THEN {"Error creating AWS session"} ELSE {})
          /\ Goto(TeardownFlow("session", err))
    /\ UNCHANGED << remote, history, mode, config, env, roleARN, awsAccountID,
                    image, confirmation, calls, atStart, handler, uris, functionRole >>

\* lambdaClient.DeleteFunction; a failure is only logged
TeardownDeleteFunction ==
    /\ mode = "teardown" /\ pc = "deleteFn"
    /\ \E res \in LambdaResponses("lambda delete-function") :
          /\ Log("lambda delete-function", res)
          /\ fn' = LambdaEffect("lambda delete-function", res, "", "")
          /\ lastCreate' = IF res = "ok" THEN NoCreate ELSE lastCreate
          /\ Say(IF res = "ok" THEN {"Lambda function deleted successfully"}
                               ELSE {"Error deleting Lambda function"})
          /\ Goto(TeardownFlow("deleteFn", res # "ok"))
    /\ UNCHANGED << role, repo, lastRoleArn, mode, config, env, roleARN, awsAccountID,
                    image, confirmation, atStart, handler, uris, functionRole >>

\* ecrClient.DeleteRepository with Force; a failure is only logged
TeardownDeleteRepository ==
    /\ mode = "teardown" /\ pc = "deleteRepo"
    /\ \E res \in (IF repo.exists THEN {"ok", "ServiceError"}
                                  ELSE {"RepositoryNotFoundException"}) :
          /\ Log("ecr delete-repository", res)
          /\ repo' = IF res = "ok" THEN [exists |-> FALSE, image |-> 0] ELSE repo
          /\ Say(IF res = "ok" THEN {"ECR repository deleted successfully"}
                               ELSE {"Error deleting ECR repository"})
          /\ Goto(TeardownFlow("deleteRepo", res # "ok"))
    /\ UNCHANGED << role, fn, history, mode, config, env, roleARN, awsAccountID,
                    image, confirmation, atStart, handler, uris, functionRole >>

(* ------------------------------------------------------------------ *)
(* cmd/lambda: the deployed handler                                    *)
(* ------------------------------------------------------------------ *)

\* values of the "name" key of an event; "" also stands for an absent key
EventNames == {"", "Ada", "Bob"}

\* the handler greeting the world whatever the event says
HandleRequestIgnoresName(name) == [text |-> "Hello, World!", err |-> "nil"]

\* HandleRequest(ctx, event): the (string, error) it returns
HandleRequest(name) ==
    IF name # "" THEN [text |-> "Hello, " \o name \o "!", err |-> "nil"]
    ELSE [text |-> "Hello, World!", err |-> "nil"]

\* lambda.Start(HandleRequest): the runtime delivers an event to the deployed function
LambdaInvoked ==
    /\ pc = "done"
    /\ FnExists(fn)
    /\ \E name \in EventNames :
          /\ event' = name
          /\ reply' = HandleRequest(name)
    /\ UNCHANGED << remote, history, atStart, mode, pc, outcome, config, env, roleARN,
                    awsAccountID, image, confirmation, calls, msgs, uris, functionRole >>

(* ------------------------------------------------------------------ *)
(* Specification                                                       *)
(* ------------------------------------------------------------------ *)

Next ==
    \/ StartSetup
    \/ SetupLoadConfig
    \/ SetupGetRole
    \/ SetupCreateRole
    \/ SetupAttachPolicy
    \/ SetupCreateRepository
    \/ SetupGetAccountID
    \/ SetupLogin
    \/ SetupBuild
    \/ SetupTag
    \/ SetupPush
    \/ SetupCreateFunction
    \/ StartDeploy
    \/ StartDeployBuiltin
    \/ DeployLoadConfig
    \/ DeployCheckIAM
    \/ DeployGetAccountID
    \/ DeployBuild
    \/ DeployGetLoginPassword
    \/ DeployDockerLogin
    \/ DeployTag
    \/ DeployPush
    \/ DeployUpdateFunction
    \/ StartTeardown
    \/ TeardownLoadConfig
    \/ TeardownConfirm
    \/ TeardownNewSession
    \/ TeardownDeleteFunction
    \/ TeardownDeleteRepository
    \/ LambdaInvoked

Spec == Init /\ [][Next]_vars

(* ------------------------------------------------------------------ *)
(* Properties                                                          *)
(* ------------------------------------------------------------------ *)

\* the commands of the Image Pipeline and the sub-step each belongs to
PipelineCommands ==
    {"ecr get-login-password", "docker login", "docker build", "docker tag", "docker push"}

LastCall == calls[Len(calls)]

\* every cmd in the log was issued after an earlier, successful first
After(first, cmd) ==
    \A j \in DOMAIN calls :
        calls[j].cmd = cmd =>
            \E i \in 1..(j - 1) : calls[i].cmd = first /\ calls[i].res = "ok"

\* C1: in a Provision or Deploy run a failed sub-step of the Image Pipeline
\* (Authenticate, Build, Tag, Push) is the last command the run issues: no later
\* sub-step is started, and the run has ended with exit status 1.
C1_AbortAtFirstFailure ==
    \A i \in DOMAIN calls :
        (mode \in {"setup", "deploy"} /\ calls[i].cmd \in PipelineCommands
                                       /\ calls[i].res # "ok")
            => (i = Len(calls) /\ pc = "done" /\ outcome = "exit1")

\* a Provision run in which Build failed after the credential was obtained
C1_Witness ==
    /\ mode = "setup" /\ pc = "done" /\ Len(calls) > 1
    /\ LastCall = Call("docker build", "Error")
    /\ Succeeded("ecr get-login-password")

\* C2: the sub-steps start in the order Authenticate (credential and registry
\* login), Build, Tag, Push, each only after the previous one succeeded; Build
\* never starts before Authenticate has succeeded.
C2_AuthenticateBuildTagPush ==
    /\ After("ecr get-login-password", "docker login")
    /\ After("docker login", "docker build")
    /\ After("docker build", "docker tag")
    /\ After("docker tag", "docker push")

\* the identity step of this run returned an ARN and no error
IdentityOk ==
    /\ mode = "setup"
    /\ msgs \cap {"Lambda execution role already exists",
                  "Lambda execution role created successfully"} # {}

\* C3: when getOrCreateLambdaExecutionRole succeeds after an earlier successful
\* call (role name non-empty, the role touched by nothing else in between), it
\* returns the same ARN as that call and issues neither create-role nor
\* attach-role-policy.
C3_IdentityIdempotent ==
    (IdentityOk /\ prevRoleArn # "none")
        => /\ config.roleName # ""
           /\ roleARN = prevRoleArn
           /\ ~Issued("iam create-role")
           /\ ~Issued("iam attach-role-policy")

\* a second successful call, after a first one that created the role
C3_Witness ==
    /\ IdentityOk /\ prevRoleArn = RoleArnOf(DefaultConfig.roleName)
    /\ roleARN = prevRoleArn
    /\ role.exists /\ role.attached

\* C4: create-role is issued only after a lookup that failed with "does not
\* exist"; any other lookup failure ends the run fatally without create-role or
\* attach-role-policy; a create or attach failure ends the run before any
\* repository, image or function step.
C4_CreateOnlyWhenNotFound ==
    /\ \A j \in DOMAIN calls :
          calls[j].cmd = "iam create-role" =>
              \E i \in 1..(j - 1) : calls[i] = Call("iam get-role", "NoSuchEntity")
    /\ \A i \in DOMAIN calls :
          (calls[i].cmd = "iam get-role" /\ calls[i].res \notin {"ok", "NoSuchEntity"})
              => (i = Len(calls) /\ outcome = "exit1")
    /\ \A i \in DOMAIN calls :
          (calls[i].cmd \in {"iam create-role", "iam attach-role-policy"}
                /\ calls[i].res # "ok")
              => (i = Len(calls) /\ outcome = "exit1")

\* C5: in Provision a create-repository failure other than "already exists" is
\* the last command of the run, which ends with exit status 1.
C5_RepositoryFailureFatal ==
    \A i \in DOMAIN calls :
        (mode = "setup" /\ calls[i].cmd = "ecr create-repository"
              /\ calls[i].res \notin {"ok", "RepositoryAlreadyExistsException"})
            => (i = Len(calls) /\ outcome = "exit1")

\* C6: when create-repository answers that the repository already exists,
\* createECRRepository returns no error (main logs none), the repository is left
\* as it was, and the Provision run continues with the account lookup.
C6_RepositoryExistsIsSuccess ==
    [][ ( /\ mode = "setup" /\ pc = "createRepo" /\ pc' # "createRepo"
          /\ calls'[Len(calls')] = Call("ecr create-repository",
                                        "RepositoryAlreadyExistsException") )
        => ( /\ repo.exists /\ repo' = repo
             /\ "ECR repository already exists" \in msgs'
             /\ "Error creating ECR repository" \notin msgs'
             /\ pc' = "account" /\ outcome' = "running" ) ]_vars

\* create-repository met an existing repository that holds an image
C6_Witness ==
    /\ mode = "setup" /\ pc = "account" /\ Len(calls) > 0
    /\ LastCall = Call("ecr create-repository", "RepositoryAlreadyExistsException")
    /\ repo.exists /\ repo.image > 0

\* C7: in Provision a create-function failure other than "resource already
\* exists" ends the run with exit status 1, never with a success report.
C7_FunctionFailureFatal ==
    \A i \in DOMAIN calls :
        (mode = "setup" /\ pc = "done" /\ calls[i].cmd = "lambda create-function"
              /\ calls[i].res \notin {"ok", "ResourceConflictException"})
            => (outcome = "exit1" /\ "Lambda function created successfully" \notin msgs)

\* the arguments createLambdaFunction is about to pass
CreateArguments ==
    [name |-> config.functionName,
     uri |-> ImageUri(awsAccountID, config.region, config.repositoryName),
     role |-> roleARN]

\* C8: a createLambdaFunction call that repeats the arguments of the latest
\* successful one, the function untouched in between, creates nothing and leaves
\* the function (existence, image pointer) as that call left it; on the remote
\* "resource already exists" answer it returns no error.
C8_CreateFunctionIdempotent ==
    [][ ( /\ mode = "setup" /\ pc = "createFn" /\ pc' # "createFn"
          /\ lastCreate.valid
          /\ CreateArguments = [name |-> lastCreate.name, uri |-> lastCreate.uri,
                                role |-> lastCreate.role] )
        => ( /\ calls'[Len(calls')].res # "ok"
             /\ fn' = lastCreate.fn
             /\ (calls'[Len(calls')].res = "ResourceConflictException"
                    => /\ "Lambda function already exists" \in msgs'
                       /\ "Error creating Lambda function" \notin msgs'
                       /\ "Lambda function created successfully" \in msgs'
                       /\ outcome' = "exit0") ) ]_vars

\* a Provision run whose create-function met the function an earlier Provision
\* run had created with the same role and image URI
C8_Witness ==
    /\ mode = "setup" /\ pc = "done" /\ Len(calls) > 0
    /\ LastCall = Call("lambda create-function", "ResourceConflictException")
    /\ fn.state = "Created" /\ fn = fnAtStart
    /\ fn.role = roleARN /\ fn.uri = CreateArguments.uri
    /\ lastCreate.valid /\ lastCreate.fn = fn

\* C9: in Deploy a failed update-function-code ends the run with exit status 1,
\* "Deployment completed successfully" is not printed, and the function's image
\* pointer is the one it had when the run started.
C9_UpdateFailureFatal ==
    \A i \in DOMAIN calls :
        (mode = "deploy" /\ calls[i].cmd = "lambda update-function-code"
              /\ calls[i].res # "ok")
            => /\ i = Len(calls) /\ pc = "done" /\ outcome = "exit1"
               /\ "Deployment completed successfully" \notin msgs
               /\ fn = fnAtStart

\* the update of an existing function failed although a new image was pushed
C9_Witness ==
    /\ mode = "deploy" /\ pc = "done" /\ Len(calls) > 0
    /\ LastCall = Call("lambda update-function-code", "ServiceError")
    /\ FnExists(fn) /\ repo.image # fn.digest

\* C10: the function becomes Updated only from Created or Updated, and a Deploy
\* run never makes an absent (never created, or deleted) function exist.
C10_NoUpdateOfAbsent ==
    [][ /\ (fn'.state = "Updated" => fn.state \in {"Created", "Updated"})
        /\ ((mode = "deploy" /\ ~FnExists(fn)) => ~FnExists(fn')) ]_vars

\* a Deploy run pushed an image and tried to update a function Teardown had deleted
C10_Witness ==
    /\ mode = "deploy" /\ pc = "done" /\ Len(calls) > 0
    /\ LastCall = Call("lambda update-function-code", "ResourceNotFoundException")
    /\ Succeeded("docker push")
    /\ fn.state = "Deleted"

\* the teardown tool has printed its prompt and read an answer
Prompted ==
    /\ mode = "teardown"
    /\ "Are you sure you want to delete the Lambda function and ECR repository? (y/n): " \in msgs

DeleteCommands == {"lambda delete-function", "ecr delete-repository"}

\* C11: a Teardown run whose answer is neither "y" nor "Y" issues no
\* delete-function and no delete-repository (no command at all), leaves role,
\* repository and function as they were, and ends cancelled with exit status 0.
C11_CancelledTeardown ==
    (Prompted /\ confirmation \notin {"y", "Y"})
        => /\ calls = << >>
           /\ << role, repo, fn >> = << roleAtStart, repoAtStart, fnAtStart >>
           /\ pc = "done" /\ outcome = "exit0"
           /\ "Deletion cancelled." \in msgs

\* the answer "n" while function and repository exist
C11_Witness ==
    /\ Prompted /\ confirmation = "n" /\ pc = "done"
    /\ FnExists(fn) /\ repo.exists

\* C12: a confirmed Teardown run whose AWS session could be created issues
\* delete-function and then delete-repository, the second whatever the first
\* answered, and ends with exit status 0 whatever either answered.
C12_IndependentDeletions ==
    /\ (mode = "teardown" /\ Issued("lambda delete-function"))
          => /\ calls[1].cmd = "lambda delete-function"
             /\ IF Len(calls) = 1 THEN pc = "deleteRepo" /\ outcome = "running"
                ELSE /\ Len(calls) = 2
                     /\ calls[2].cmd = "ecr delete-repository"
                     /\ pc = "done" /\ outcome = "exit0"
    /\ (Prompted /\ confirmation \in {"y", "Y"} /\ pc = "done"
                 /\ "Error creating AWS session" \notin msgs)
          => (Len(calls) = 2 /\ outcome = "exit0")

\* the function deletion failed, the repository deletion was made and succeeded
C12_Witness ==
    /\ mode = "teardown" /\ pc = "done" /\ outcome = "exit0"
    /\ calls = << Call("lambda delete-function", "ServiceError"),
                  Call("ecr delete-repository", "ok") >>
    /\ FnExists(fn) /\ ~repo.exists

\* C13: in any run create-function and update-function-code are issued only
\* after a successful docker push of the same run, and docker push only after
\* the account ID was resolved in that run.
C13_FunctionAfterPush ==
    /\ After("docker push", "lambda create-function")
    /\ After("docker push", "lambda update-function-code")
    /\ After("sts get-caller-identity", "docker push")
    /\ (Issued("docker push") => awsAccountID = AccountID)

\* a Provision run created the function from the image it had pushed
C13_Witness ==
    /\ mode = "setup" /\ pc = "done"
    /\ Succeeded("docker push") /\ Succeeded("lambda create-function")
    /\ fn.digest = image /\ image > 0

\* the answers a repeated Provision run expects from the remote services
ExpectedResults == {"ok", "RepositoryAlreadyExistsException", "ResourceConflictException"}

\* this Provision run ended; it directly follows a Provision run that exited 0
\* with the same config and environment, and met no unexpected remote failure
SecondProvision ==
    /\ mode = "setup" /\ pc = "done"
    /\ prev.provisioned /\ prev.config = config /\ prev.env = envAtStart
    /\ \A i \in DOMAIN calls : calls[i].res \in ExpectedResults

\* C14: a Provision run that follows a successful Provision run with the same
\* config, and meets no remote failure but the already-exists answers, also
\* exits 0 and leaves the existing resources (role and its policy attachment,
\* repository, function) as the first run left them.
C14_ProvisionIdempotent ==
    SecondProvision
        => /\ outcome = "exit0"
           /\ role = roleAtStart
           /\ repo.exists = repoAtStart.exists
           /\ FnExists(fn) = FnExists(fnAtStart)

\* C15: every image reference a run passes to docker tag, docker push,
\* create-function or update-function-code is
\* {account}.dkr.ecr.{region}.amazonaws.com/{repository}:latest; for account
\* 123456789012, region us-west-2 and repository hello-world-repo that is
\* 123456789012.dkr.ecr.us-west-2.amazonaws.com/hello-world-repo:latest, with
\* no trace of the function name; a function created or updated in the run
\* points at the same reference.
C15_ImageReference ==
    /\ \A u \in uris :
          /\ u.cmd \in {"docker tag", "docker push", "lambda create-function",
                        "lambda update-function-code"}
          /\ Issued(u.cmd)
          /\ (config.region = "us-west-2" /\ config.repositoryName = "hello-world-repo"
                 /\ awsAccountID = "123456789012")
             => u.uri = "123456789012.dkr.ecr.us-west-2.amazonaws.com/hello-world-repo:latest"
    /\ \A u, v \in uris : u.uri = v.uri
    /\ \A c \in {"docker tag", "docker push", "lambda create-function",
                 "lambda update-function-code"} :
          Issued(c) => \E u \in uris : u.cmd = c
    /\ (Succeeded("lambda create-function") \/ Succeeded("lambda update-function-code"))
          => \A u \in uris : fn.uri = u.uri

\* a Deploy run tagged, pushed and updated the function with one reference
C15_Witness ==
    /\ mode = "deploy" /\ pc = "done" /\ outcome = "exit0"
    /\ Cardinality(uris) = 3
    /\ config.functionName = "hello-world-lambda"
    /\ fn.uri = "123456789012.dkr.ecr.us-west-2.amazonaws.com/hello-world-repo:latest"

\* the config file of this run could not be read or parsed
ConfigFailed ==
    msgs \cap {"Failed to load configuration", "Error reading config file"} # {}

\* C16: a run whose config file cannot be read or parsed ends at once with exit
\* status 1: no command is issued, nothing remote changes and, in Teardown, the
\* confirmation prompt is never shown.
C16_ConfigFailureFatal ==
    ConfigFailed
        => /\ pc = "done" /\ outcome = "exit1"
           /\ calls = << >> /\ uris = {}
           /\ config = EmptyConfig
           /\ << role, repo, fn >> = << roleAtStart, repoAtStart, fnAtStart >>
           /\ ~Prompted /\ confirmation = ""

\* Teardown could not read its config while there was something to delete
C16_Witness ==
    /\ mode = "teardown" /\ ConfigFailed /\ pc = "done"
    /\ FnExists(fn) /\ repo.exists

\* C17: no command is issued while a field of the loaded config is empty
\* (region, profile, function name, repository name and, in Provision, role name).
C17_ConfigFieldsNonEmpty ==
    calls # << >>
        => /\ config.region # "" /\ config.profile # ""
           /\ config.functionName # "" /\ config.repositoryName # ""
           /\ (mode = "setup" => config.roleName # "")

\* C18: no step removes the role or its policy attachment; repository and
\* function stop existing only in a Teardown run that was answered "y" or "Y",
\* and only such a run issues delete-function or delete-repository.
C18_DeletionOnlyInTeardown ==
    [][ /\ (role.exists => role'.exists)
        /\ (role.attached => role'.attached)
        /\ (~(mode = "teardown" /\ confirmation \in {"y", "Y"})
               => /\ (repo.exists => repo'.exists)
                  /\ (FnExists(fn) => FnExists(fn')))
        /\ \A i \in DOMAIN calls' :
              calls'[i].cmd \in DeleteCommands
                  => (mode' = "teardown" /\ confirmation' \in {"y", "Y"}) ]_vars

\* a confirmed Teardown removed function and repository and left the role
C18_Witness ==
    /\ mode = "teardown" /\ pc = "done" /\ confirmation = "Y"
    /\ fn.state = "Deleted" /\ FnExists(fnAtStart)
    /\ ~repo.exists /\ repoAtStart.exists
    /\ role.exists /\ role.attached

\* C19: for every event the handler returns no error and the text
\* "Hello, <name>!" when the name is non-empty, "Hello, World!" when it is
\* empty or absent.
C19_Greeting ==
    reply # NoReply
        => /\ reply.err = "nil"
           /\ (event = "" => reply.text = "Hello, World!")
           /\ (event = "Ada" => reply.text = "Hello, Ada!")
           /\ (event # "" => reply.text = "Hello, " \o event \o "!")

\* the deployed function answered an event that names Ada
C19_Witness ==
    /\ FnExists(fn) /\ event = "Ada" /\ reply.text = "Hello, Ada!"

\* C20: whenever the identity step of a Provision run returns an ARN and no
\* error, the role exists and has the managed policy attached.
C20_IdentityHasPolicy ==
    IdentityOk => (role.exists /\ role.attached)


\* the commands of getOrCreateLambdaExecutionRole
IdentityCommands == {"iam get-role", "iam create-role", "iam attach-role-policy"}

\* C21: in a Provision run started with LAMBDA_EXECUTION_ROLE_ARN non-empty, no
\* get-role, create-role or attach-role-policy is issued and the role ARN passed
\* to create-function is that value; started with it empty, the ARN passed to
\* create-function is the one getOrCreateLambdaExecutionRole returned in this run.
C21_RoleArnSource ==
    mode = "setup"
        => /\ envAtStart # ""
                => /\ \A c \in IdentityCommands : ~Issued(c)
                   /\ functionRole \in {"none", envAtStart}
           /\ (envAtStart = "" /\ functionRole # "none")
                => /\ IdentityOk
                   /\ functionRole = lastRoleArn
                   /\ functionRole = RoleArnOf(config.roleName)

\* a run started with the variable set created the function with that role
C21_Witness ==
    /\ mode = "setup" /\ envAtStart # ""
    /\ Succeeded("lambda create-function")
    /\ functionRole = envAtStart
    /\ fn.role = envAtStart


\* the read-only checks main of the deploy tool makes first
PreChecks == {"iam get-user", "sts get-caller-identity"}

\* what the deploy tool runs after its checks
DeployCommands == PipelineCommands \cup {"lambda update-function-code"}

\* C22: in a Deploy run a failed iam get-user or sts get-caller-identity is the
\* last command issued and the run ends with exit status 1: no build, registry
\* login, tag, push or update-function-code is issued, and the local image, the
\* repository and the function are as they were when the run started; any such
\* command is issued only after both checks succeeded, in that order.
C22_PreChecksGuardDeploy ==
    mode = "deploy"
        => /\ \A i \in DOMAIN calls :
                (calls[i].cmd \in PreChecks /\ calls[i].res # "ok")
                    => /\ i = Len(calls) /\ pc = "done" /\ outcome = "exit1"
                       /\ \A c \in DeployCommands : ~Issued(c)
                       /\ image = 0 /\ uris = {}
                       /\ repo = repoAtStart /\ fn = fnAtStart
           /\ \A j \in DOMAIN calls :
                calls[j].cmd \in DeployCommands
                    => /\ j > 2
                       /\ calls[1] = Call("iam get-user", "ok")
                       /\ calls[2] = Call("sts get-caller-identity", "ok")
           /\ (\A j \in DOMAIN calls : calls[j].cmd \in PreChecks)
                    => (image = 0 /\ remote = << roleAtStart, repoAtStart, fnAtStart >>)

\* the account lookup failed in a Deploy run against a deployed function
C22_Witness ==
    /\ mode = "deploy" /\ pc = "done" /\ outcome = "exit1"
    /\ calls = << Call("iam get-user", "ok"), Call("sts get-caller-identity", "Error") >>
    /\ FnExists(fn) /\ repo.image # 0

====
